---- MODULE Spec2Model ----
(***************************************************************************)
(* Model of morning-report's citation-delta tracker (gatherers/ads.py) and *)
(* arXiv tier classifier (arxiv/classifier.py, gatherers/arxiv.py).        *)
(*                                                                         *)
(* Python values are represented as follows.                               *)
(*   str    a sequence of one-character strings, <<"a", "b">> for "ab";    *)
(*          the fixed metric and field names, which the code only compares *)
(*          for equality, are TLA+ strings                                 *)
(*   dict   a function whose DOMAIN is the set of keys; {} is <<>>         *)
(*   None   the record NoneVal                                             *)
(*   number the record Num(n), n an integer count of thousandths           *)
(*          (Num(2710) is 2.71, Num(38000) is 38)                          *)
(***************************************************************************)
EXTENDS Integers, Sequences, FiniteSets, TLC

VARIABLES
    now,      \* the local clock: the day number datetime.now() falls on
    file,     \* briefings/ads_history.json
    pc,       \* the statement of gather (or of the direct call) to run next
    metrics,  \* gather's local metrics / _compute_deltas' argument current
    history,  \* gather's local history / _compute_deltas' argument history
    deltas,   \* gather's local deltas / _compute_deltas' result
    outcome,  \* how the last run of gather ended
    file0,    \* the file as it was when the current run was called
    done,     \* the statements the current run has executed, with their day
    runlog,   \* one entry per finished run of gather
    args,     \* the arguments of the classifier call or of the arXiv run
    ret       \* what that call returned

vars == <<now, file, pc, metrics, history, deltas, outcome, file0, done, runlog,
          args, ret>>

(***************************************************************************)
(* Bounds of the model.                                                    *)
(***************************************************************************)
\* the clock runs over day numbers 0..MaxDay, counted from StartDate
MaxDay == 3
\* at most this many date keys in a history file that exists at start-up
MaxHist == 3
\* title and abstract of a classified document have at most this many
\* characters together
MaxText == 3
\* a keyword list has at most this many keywords
MaxKw == 2
\* a batch of documents, and an arXiv feed, has at most this many entries
MaxPapers == 2
\* at most this many runs of gather are recorded in runlog
MaxRuns == 3
\* the day number of the clock at start-up (a history found then can hold
\* earlier dates)
FirstDay == 1

(***************************************************************************)
(* Python values.                                                          *)
(***************************************************************************)
NoneVal == [t |-> "None"]

Num(n) == [t |-> "num", v |-> n]

IsNumber(x) == x.t = "num"

\* dict.get(key) / dict.get(key, default)
Get(d, k, default) == IF k \in DOMAIN d THEN d[k] ELSE default

EmptyDict == << >>

\* truthiness of a dict: a non-empty dict is true
Truthy(d) == DOMAIN d # {}

\* the dict d restricted to the keys in S
Restrict(d, S) == [k \in S |-> d[k]]

(***************************************************************************)
(* Strings: code points, lexicographic order, sorted().                    *)
(***************************************************************************)
DigitChars == <<"0", "1", "2", "3", "4", "5", "6", "7", "8", "9">>

\* code point of a character of a date string ("-" is 45, "0".."9" are 48..57)
Ord(ch) == IF ch = "-" THEN 45
           ELSE 47 + (CHOOSE i \in 1..10 : DigitChars[i] = ch)

\* Python's str < str: the first differing code point decides, a proper
\* prefix is smaller
RECURSIVE StrLess(_, _)
StrLess(a, b) ==
    IF b = << >> THEN FALSE
    ELSE IF a = << >> THEN TRUE
    ELSE IF Head(a) = Head(b) THEN StrLess(Tail(a), Tail(b))
    ELSE Ord(Head(a)) < Ord(Head(b))

\* sorted(S) for a set of strings: ascending list
RECURSIVE Sorted(_)
Sorted(S) ==
    IF S = {} THEN << >>
    ELSE LET least == CHOOSE x \in S : \A y \in S \ {x} : StrLess(x, y)
         IN  <<least>> \o Sorted(S \ {least})

(***************************************************************************)
(* The local calendar: datetime.now().strftime("%Y-%m-%d").                *)
(***************************************************************************)
StartDate == [y |-> 2026, m |-> 2, d |-> 26]

IsLeap(y) == (y % 4 = 0 /\ y % 100 # 0) \/ y % 400 = 0

DaysInMonth(y, m) ==
    IF m = 2 THEN (IF IsLeap(y) THEN 29 ELSE 28)
    ELSE IF m \in {4, 6, 9, 11} THEN 30 ELSE 31

NextDay(dt) ==
    IF dt.d < DaysInMonth(dt.y, dt.m) THEN [dt EXCEPT !.d = dt.d + 1]
    ELSE IF dt.m < 12 THEN [dt EXCEPT !.m = dt.m + 1, !.d = 1]
    ELSE [y |-> dt.y + 1, m |-> 1, d |-> 1]

\* the calendar date of day number n
RECURSIVE DateOf(_)
DateOf(n) == IF n = 0 THEN StartDate ELSE NextDay(DateOf(n - 1))

Digit(n) == DigitChars[n + 1]

\* "%Y-%m-%d": zero-padded year (4), month (2), day (2)
strftime(dt) ==
    <<Digit((dt.y \div 1000) % 10), Digit((dt.y \div 100) % 10),
      Digit((dt.y \div 10) % 10), Digit(dt.y % 10), "-",
      Digit((dt.m \div 10) % 10), Digit(dt.m % 10), "-",
      Digit((dt.d \div 10) % 10), Digit(dt.d % 10)>>

\* datetime.now().strftime("%Y-%m-%d") when the clock shows day number n
Today(n) == strftime(DateOf(n))

(***************************************************************************)
(* ADSGatherer._compute_deltas                                             *)
(***************************************************************************)
\* the fixed indicator list of the loop at ads.py:121
IndicatorKeys == <<"h", "g", "m", "i10", "i100", "tori", "riq", "read10">>

\* the fixed citation-stats list of the loop at ads.py:136
CitationKeys == <<"total number of citations", "number of citing papers">>

SeqRange(s) == {s[i] : i \in 1..Len(s)}

\* mutant: the difference is cut off after the second decimal
Round2_Floor(x) == 10 * (x \div 10)

\* round(x, 2) on thousandths: the nearest hundredth, an exact tie going to
\* the even hundredth
Round2(x) ==
    LET q == x \div 10
        r == x % 10
    IN  IF r < 5 THEN 10 * q
        ELSE IF r > 5 THEN 10 * (q + 1)
        ELSE IF q % 2 = 0 THEN 10 * q ELSE 10 * (q + 1)

\* mutant: today's own key is not excluded
CandidateDates_KeepToday(hist, today) == Sorted(DOMAIN hist)

\* dates = sorted(d for d in history.keys() if d != today)
CandidateDates(hist, today) == Sorted({d \in DOMAIN hist : d # today})

\* mutant: the test "diff != 0" is missing, unchanged keys are reported
IndDeltas_KeepZero(curr_ind, prev_ind) ==
    LET c(key) == Get(curr_ind, key, NoneVal)
        p(key) == Get(prev_ind, key, NoneVal)
        kept == {key \in SeqRange(IndicatorKeys) :
                    /\ c(key) # NoneVal /\ p(key) # NoneVal
                    /\ IsNumber(c(key))}
    IN  [key \in kept |->
            [current |-> c(key).v, previous |-> p(key).v,
             delta |-> Round2(c(key).v - p(key).v)]]

\* mutant: every key of the current indicators is compared, not the fixed list
IndDeltas_AllKeys(curr_ind, prev_ind) ==
    LET c(key) == Get(curr_ind, key, NoneVal)
        p(key) == Get(prev_ind, key, NoneVal)
        diff(key) == c(key).v - p(key).v
        kept == {key \in DOMAIN curr_ind :
                    /\ c(key) # NoneVal /\ p(key) # NoneVal
                    /\ IsNumber(c(key))
                    /\ diff(key) # 0}
    IN  [key \in kept |->
            [current |-> c(key).v, previous |-> p(key).v,
             delta |-> Round2(diff(key))]]

\* ads.py:116-129, the dict ind_deltas
IndDeltas(curr_ind, prev_ind) ==
    LET c(key) == Get(curr_ind, key, NoneVal)
        p(key) == Get(prev_ind, key, NoneVal)
        diff(key) == c(key).v - p(key).v
        kept == {key \in SeqRange(IndicatorKeys) :
                    /\ c(key) # NoneVal /\ p(key) # NoneVal
                    /\ IsNumber(c(key))
                    /\ diff(key) # 0}
    IN  [key \in kept |->
            [current |-> c(key).v, previous |-> p(key).v,
             delta |-> Round2(diff(key))]]

\* mutant: a key missing or null on one side counts as 0
CiteDeltas_MissingAsZero(curr_cite, prev_cite) ==
    LET val(x) == IF x = NoneVal THEN 0 ELSE x.v
        c(key) == val(Get(curr_cite, key, NoneVal))
        p(key) == val(Get(prev_cite, key, NoneVal))
        kept == {key \in SeqRange(CitationKeys) : c(key) - p(key) # 0}
    IN  [key \in kept |->
            [current |-> c(key), previous |-> p(key), delta |-> c(key) - p(key)]]

\* ads.py:131-144, the dict cite_deltas
CiteDeltas(curr_cite, prev_cite) ==
    LET c(key) == Get(curr_cite, key, NoneVal)
        p(key) == Get(prev_cite, key, NoneVal)
        kept == {key \in SeqRange(CitationKeys) :
                    /\ c(key) # NoneVal /\ p(key) # NoneVal
                    /\ c(key).v - p(key).v # 0}
    IN  [key \in kept |->
            [current |-> c(key).v, previous |-> p(key).v,
             delta |-> c(key).v - p(key).v]]

\* mutant: the two counts are tested for truth, not against None, so that a
\* count of 0 is taken for a missing one
PapersDelta_Truthy(curr_basic, prev_basic) ==
    LET papers_c == Get(curr_basic, "number of papers", NoneVal)
        papers_p == Get(prev_basic, "number of papers", NoneVal)
    IN  IF /\ Truthy(curr_basic) /\ Truthy(prev_basic)
           /\ papers_c # NoneVal /\ papers_p # NoneVal
           /\ papers_c.v # 0 /\ papers_p.v # 0
           /\ papers_c # papers_p
        THEN "papers" :> [current |-> papers_c.v, previous |-> papers_p.v,
                          delta |-> papers_c.v - papers_p.v]
        ELSE << >>

\* ads.py:146-157, the entry deltas["papers"], or << >> when none is set
PapersDelta(curr_basic, prev_basic) ==
    LET papers_c == Get(curr_basic, "number of papers", NoneVal)
        papers_p == Get(prev_basic, "number of papers", NoneVal)
    IN  IF /\ Truthy(curr_basic) /\ Truthy(prev_basic)
           /\ papers_c # NoneVal /\ papers_p # NoneVal
           /\ papers_c # papers_p
        THEN "papers" :> [current |-> papers_c.v, previous |-> papers_p.v,
                          delta |-> papers_c.v - papers_p.v]
        ELSE << >>

\* mutant: dates[0], the oldest date, instead of dates[-1]
PrevDate_Oldest(hist, today) == CandidateDates(hist, today)[1]

\* the date _compute_deltas compares against: dates[-1]
PrevDate(hist, today) ==
    LET dates == CandidateDates(hist, today) IN dates[Len(dates)]

\* _compute_deltas(current, history), with today as datetime.now() gives it
compute_deltas(current, hist, today) ==
    IF ~Truthy(hist) THEN EmptyDict
    ELSE IF CandidateDates(hist, today) = << >> THEN EmptyDict
    ELSE
      LET prev_date == PrevDate(hist, today)
          previous == hist[prev_date]
          curr_ind == Get(current, "indicators", EmptyDict)
          prev_ind == Get(previous, "indicators", EmptyDict)
          ind_deltas == IF Truthy(curr_ind) /\ Truthy(prev_ind)
                        THEN IndDeltas(curr_ind, prev_ind) ELSE EmptyDict
          curr_cite == Get(current, "citation stats", EmptyDict)
          prev_cite == Get(previous, "citation stats", EmptyDict)
          cite_deltas == IF Truthy(curr_cite) /\ Truthy(prev_cite)
                         THEN CiteDeltas(curr_cite, prev_cite) ELSE EmptyDict
          curr_basic == Get(current, "basic stats", EmptyDict)
          prev_basic == Get(previous, "basic stats", EmptyDict)
      IN  ("compared_to" :> prev_date)
          @@ (IF Truthy(ind_deltas) THEN "indicators" :> ind_deltas ELSE << >>)
          @@ (IF Truthy(cite_deltas) THEN "citations" :> cite_deltas ELSE << >>)
          @@ PapersDelta(curr_basic, prev_basic)

(***************************************************************************)
(* Inputs: metrics snapshots and histories.                                *)
(***************************************************************************)
\* all dicts with keys among the domain of pool and, for each key k present,
\* a value of pool[k]
DictsOver(pool) ==
    UNION {{d \in [K -> UNION {pool[k] : k \in K}] : \A k \in K : d[k] \in pool[k]}
           : K \in SUBSET DOMAIN pool}

\* the snapshot of tests/test_ads.py:41-55 (h, read10, the citation and
\* paper counts)
BaseIndicators == ("h" :> Num(38000)) @@ ("read10" :> Num(18400))

BaseCitations ==
    ("total number of citations" :> Num(5000000))
    @@ ("number of citing papers" :> Num(4200000))

BaseBasic == "number of papers" :> Num(142000)

Snapshot(ind, cite, basic) ==
    ("indicators" :> ind) @@ ("citation stats" :> cite) @@ ("basic stats" :> basic)

BaseSnapshot == Snapshot(BaseIndicators, BaseCitations, BaseBasic)

\* indicator sections: the first and the last key of the fixed list, with
\* null, unchanged, whole-number and sub-hundredth changes, and a key "zz"
\* outside the fixed list
IndSections ==
    DictsOver(("h" :> {NoneVal, Num(38000), Num(39000)})
              @@ ("read10" :> {Num(18400), Num(18401), Num(18406)}))
    \cup {BaseIndicators @@ ("zz" :> Num(7000)),
          BaseIndicators @@ ("zz" :> Num(8000)),
          "zz" :> Num(7000)}

CiteSections ==
    DictsOver(("total number of citations"
                  :> {NoneVal, Num(5000000), Num(5050000)})
              @@ ("number of citing papers" :> {Num(4200000), Num(4201000)}))

BasicSections ==
    DictsOver("number of papers" :> {NoneVal, Num(0), Num(142000), Num(143000)})

\* snapshots that differ from BaseSnapshot in at most one section, or lack
\* one section
SnapshotPool ==
    {Snapshot(s, BaseCitations, BaseBasic) : s \in IndSections}
    \cup {Snapshot(BaseIndicators, s, BaseBasic) : s \in CiteSections}
    \cup {Snapshot(BaseIndicators, BaseCitations, s) : s \in BasicSections}
    \cup {Restrict(BaseSnapshot, DOMAIN BaseSnapshot \ {k}) : k \in DOMAIN BaseSnapshot}

\* the date keys a history can hold: the local dates of the days 0..MaxDay
DateKeys == {Today(n) : n \in 0..MaxDay}

\* histories of at most MaxHist date keys, one of them holding any snapshot
\* of pool and the others BaseSnapshot
Histories(pool) ==
    UNION {{[k \in K |-> IF k = r THEN s ELSE BaseSnapshot] : r \in K, s \in pool}
           : K \in {X \in SUBSET DateKeys : X # {} /\ Cardinality(X) <= MaxHist}}
    \cup {EmptyDict}

\* the days on which _compute_deltas is called directly
DeltaDays == {1, 2}

(***************************************************************************)
(* SpecDelta: _compute_deltas as a function of its arguments and the date. *)
(***************************************************************************)
NoFile == [state |-> "absent", data |-> EmptyDict]

InitDelta ==
    /\ now \in DeltaDays
    /\ metrics \in SnapshotPool
    /\ history \in Histories(SnapshotPool)
    /\ deltas = EmptyDict
    /\ pc = "call"
    /\ file = NoFile
    /\ file0 = NoFile
    /\ outcome = "none"
    /\ done = << >>
    /\ runlog = << >>
    /\ args = EmptyDict
    /\ ret = EmptyDict

\* mutant: the call files the current snapshot in the history it was given
ComputeDeltas_RecordsToday ==
    /\ pc = "call"
    /\ deltas' = compute_deltas(metrics, history, Today(now))
    /\ history' = (Today(now) :> metrics) @@ history
    /\ pc' = "returned"
    /\ UNCHANGED <<now, file, metrics, outcome, file0, done, runlog, args, ret>>

ComputeDeltas ==
    /\ pc = "call"
    /\ deltas' = compute_deltas(metrics, history, Today(now))
    /\ pc' = "returned"
    /\ UNCHANGED <<now, file, metrics, history, outcome, file0, done, runlog, args, ret>>

NextDelta == ComputeDeltas

SpecDelta == InitDelta /\ [][NextDelta]_vars

(***************************************************************************)
(* The history file: json.load / json.dump, _load_history, _save_history.  *)
(*                                                                         *)
(* file.state is "absent" (no file), "corrupt" (open or json.load raises:  *)
(* unreadable or not JSON), "null" (the JSON document null: valid JSON     *)
(* that is no object) or "ok" (a JSON object, held in file.data).          *)
(***************************************************************************)
JsonNull == [t |-> "null"]

\* json.dump: None is written as null, numbers as numbers, dicts as objects
DumpValue(x) == IF x = NoneVal THEN JsonNull ELSE x

DumpSection(sec) == [k \in DOMAIN sec |-> DumpValue(sec[k])]

DumpSnapshot(snap) == [k \in DOMAIN snap |-> DumpSection(snap[k])]

json_dump(hist) == [d \in DOMAIN hist |-> DumpSnapshot(hist[d])]

\* json.load: null is read as None
LoadValue(x) == IF x = JsonNull THEN NoneVal ELSE x

LoadSection(sec) == [k \in DOMAIN sec |-> LoadValue(sec[k])]

LoadSnapshot(snap) == [k \in DOMAIN snap |-> LoadSection(snap[k])]

json_load(doc) == [d \in DOMAIN doc |-> LoadSnapshot(doc[d])]

\* mutant: a missing file is an error
load_history_FailsWhenAbsent(f) ==
    IF f.state = "ok"
    THEN [raised |-> FALSE, isdict |-> TRUE, value |-> json_load(f.data)]
    ELSE IF f.state = "null"
    THEN [raised |-> FALSE, isdict |-> FALSE, value |-> EmptyDict]
    ELSE [raised |-> TRUE, isdict |-> FALSE, value |-> EmptyDict]

\* mutant: a file that cannot be read is taken for an empty history
load_history_Tolerant(f) ==
    IF f.state = "ok"
    THEN [raised |-> FALSE, isdict |-> TRUE, value |-> json_load(f.data)]
    ELSE [raised |-> FALSE, isdict |-> TRUE, value |-> EmptyDict]

\* _load_history: the value returned (isdict is false for None), or raised
load_history(f) ==
    IF f.state = "absent"
    THEN [raised |-> FALSE, isdict |-> TRUE, value |-> EmptyDict]
    ELSE IF f.state = "corrupt"
    THEN [raised |-> TRUE, isdict |-> FALSE, value |-> EmptyDict]
    ELSE IF f.state = "null"
    THEN [raised |-> FALSE, isdict |-> FALSE, value |-> EmptyDict]
    ELSE [raised |-> FALSE, isdict |-> TRUE, value |-> json_load(f.data)]

\* mutant: the file is rewritten with today's entry alone
save_history_Fresh(f, m, today) ==
    [raised |-> FALSE, file |-> [state |-> "ok", data |-> json_dump(today :> m)]]

\* _save_history(metrics) on the file f: the file it leaves, or raised.
\* history[today] = metrics raises TypeError when the loaded value is None.
save_history(f, m, today) ==
    LET loaded == load_history(f)
    IN  IF loaded.raised \/ ~loaded.isdict
        THEN [raised |-> TRUE, file |-> f]
        ELSE [raised |-> FALSE,
              file |-> [state |-> "ok",
                        data |-> json_dump((today :> m) @@ loaded.value)]]

(***************************************************************************)
(* Spec: runs of ADSGatherer.gather, one at a time, while the clock runs.  *)
(***************************************************************************)
\* mutant: the snapshot is saved before the delta is computed
GatherBody_SaveFirst == <<"fetch", "save", "compare", "return">>

\* mutant: the snapshot is saved before anything is fetched
GatherBody_SaveBeforeFetch == <<"save", "fetch", "compare", "return">>

\* the statements of gather in program order: ads.py:163-178 (fetch),
\* 181-182 (load the history, compute the delta), 185 (save), 187-202
GatherBody == <<"fetch", "compare", "save", "return">>

\* the statement after stmt
After(stmt) ==
    GatherBody[1 + CHOOSE i \in 1..Len(GatherBody) : GatherBody[i] = stmt]

\* what the metrics endpoint answers: the base snapshot, or one with other
\* indicators and paper count and without the citation stats
FetchPool ==
    {BaseSnapshot,
     ("indicators" :> (("h" :> Num(39000)) @@ ("read10" :> Num(18406))))
        @@ ("basic stats" :> ("number of papers" :> Num(143000)))}

\* the files gather can find at start-up
InitFiles ==
    {[state |-> st, data |-> EmptyDict] : st \in {"absent", "corrupt", "null"}}
    \cup {[state |-> "ok", data |-> json_dump(h)] : h \in Histories({BaseSnapshot})}

Init ==
    /\ now = FirstDay
    /\ file \in InitFiles
    /\ pc = "idle"
    /\ metrics = EmptyDict
    /\ history = EmptyDict
    /\ deltas = EmptyDict
    /\ outcome = "none"
    /\ file0 = file
    /\ done = << >>
    /\ runlog = << >>
    /\ args = EmptyDict
    /\ ret = EmptyDict

\* a run ends (return or raise): its locals are gone, its record is kept.
\* The record of a finished run: how it ended, the file it started from,
\* the day each statement ran on, and the compared_to it computed
LogEntry(status, steps) ==
    [status |-> status, file_state |-> file0.state, days |-> steps,
     compared_to |-> Get(deltas, "compared_to", << >>)]

EndRun(status) ==
    /\ pc' = "idle"
    /\ outcome' = status
    /\ runlog' = Append(runlog, LogEntry(status, done))
    /\ metrics' = EmptyDict
    /\ history' = EmptyDict
    /\ deltas' = EmptyDict
    /\ done' = << >>
    /\ UNCHANGED <<now, file, file0, args, ret>>

\* the scheduler calls gather
StartRun ==
    /\ pc = "idle"
    /\ Len(runlog) < MaxRuns
    /\ pc' = GatherBody[1]
    /\ outcome' = "running"
    /\ file0' = file
    /\ done' = "call" :> now
    /\ UNCHANGED <<now, file, metrics, history, deltas, runlog, args, ret>>

\* ads.py:163-178: _get_bibcodes and _get_metrics raise, or no bibcode is
\* found (the error dict is returned), or metrics is built from the answer
GatherFetch ==
    /\ pc = "fetch"
    /\ \/ /\ EndRun("raised")
       \/ /\ EndRun("error")
       \/ /\ \E raw \in FetchPool :
                metrics' = Snapshot(Get(raw, "indicators", EmptyDict),
                                    Get(raw, "citation stats", EmptyDict),
                                    Get(raw, "basic stats", EmptyDict))
          /\ pc' = After("fetch")
          /\ done' = ("fetch" :> now) @@ done
          /\ UNCHANGED <<now, file, history, deltas, outcome, file0, runlog, args, ret>>

\* ads.py:181-182: history = _load_history(); deltas = _compute_deltas(...).
\* A loaded None is false, and _compute_deltas returns {} at ads.py:103-104.
GatherCompare ==
    /\ pc = "compare"
    /\ LET loaded == load_history(file)
       IN  IF loaded.raised
           THEN /\ EndRun("raised")
           ELSE /\ history' = loaded.value
                /\ deltas' = compute_deltas(metrics, loaded.value, Today(now))
                /\ pc' = After("compare")
                /\ done' = ("compare" :> now) @@ done
                /\ UNCHANGED <<now, file, metrics, outcome, file0, runlog, args, ret>>

\* ads.py:185: self._save_history(metrics)
GatherSave ==
    /\ pc = "save"
    /\ LET saved == save_history(file, metrics, Today(now))
       IN  IF saved.raised
           THEN /\ EndRun("raised")
           ELSE /\ file' = saved.file
                /\ pc' = After("save")
                /\ done' = ("save" :> now) @@ done
                /\ UNCHANGED <<now, metrics, history, deltas, outcome, file0, runlog, args, ret>>

\* ads.py:187-202: the result, with deltas, is returned
GatherReturn ==
    /\ pc = "return"
    /\ EndRun("ok")

\* midnight passes
Tick ==
    /\ now < MaxDay
    /\ now' = now + 1
    /\ UNCHANGED <<file, pc, metrics, history, deltas, outcome, file0, done, runlog,
                   args, ret>>

Next ==
    \/ StartRun
    \/ GatherFetch
    \/ GatherCompare
    \/ GatherSave
    \/ GatherReturn
    \/ Tick

Spec == Init /\ [][Next]_vars

(***************************************************************************)
(* arxiv/classifier.py: classify_paper.                                    *)
(*                                                                         *)
(* An optional argument is NoneVal or a wrapped value: Str(s) for a str,   *)
(* SetOf(S) for a set, Tier(n) for a tier number.                           *)
(***************************************************************************)
Str(s) == [t |-> "str", v |-> s]

SetOf(S) == [t |-> "set", v |-> S]

Tier(n) == [t |-> "int", v |-> n]

\* str.lower() on one character.  A character outside ASCII is written as its
\* code point: "U+00B5" is the micro sign, "U+039C" and "U+03BC" are the Greek
\* capital and small letter mu.  The micro sign is a lower-case letter already
\* and stays as it is; capital mu becomes small mu.
LowerChar(ch) ==
    IF ch = "A" THEN "a"
    ELSE IF ch = "B" THEN "b"
    ELSE IF ch = "U+039C" THEN "U+03BC"
    ELSE ch

\* str.lower()
Lower(str) == [i \in 1..Len(str) |-> LowerChar(str[i])]

\* the Python test "sub in text" on strings
Contains(text, sub) ==
    \E i \in 0..(Len(text) - Len(sub)) : SubSeq(text, i + 1, i + Len(sub)) = sub

\* mutant: the matching keywords are returned lower-cased
RECURSIVE Matched_Lowered(_, _)
Matched_Lowered(keywords, text) ==
    IF keywords = << >> THEN << >>
    ELSE (IF Contains(text, Lower(Head(keywords)))
          THEN <<Lower(Head(keywords))>> ELSE << >>)
         \o Matched_Lowered(Tail(keywords), text)

\* [kw for kw in keywords if kw.lower() in text]
RECURSIVE Matched(_, _)
Matched(keywords, text) ==
    IF keywords = << >> THEN << >>
    ELSE (IF Contains(text, Lower(Head(keywords))) THEN <<Head(keywords)>> ELSE << >>)
         \o Matched(Tail(keywords), text)

\* mutant: any identified document counts as citing once an index is there
CitesMyWork_AnyIdentifier(citing_bibcodes, paper_bibcode) ==
    /\ citing_bibcodes # NoneVal /\ citing_bibcodes.v # {}
    /\ paper_bibcode # NoneVal /\ paper_bibcode.v # << >>

\* mutant: the identifier is not tested for being non-empty
CitesMyWork_EmptyIdentifier(citing_bibcodes, paper_bibcode) ==
    /\ citing_bibcodes # NoneVal /\ citing_bibcodes.v # {}
    /\ paper_bibcode # NoneVal
    /\ paper_bibcode.v \in citing_bibcodes.v

\* the test of classifier.py:36: a non-empty set, a non-empty identifier,
\* and the identifier in the set
CitesMyWork(citing_bibcodes, paper_bibcode) ==
    /\ citing_bibcodes # NoneVal /\ citing_bibcodes.v # {}
    /\ paper_bibcode # NoneVal /\ paper_bibcode.v # << >>
    /\ paper_bibcode.v \in citing_bibcodes.v

\* mutant: the keyword tiers are tried before the citation check
classify_paper_KeywordsFirst(title, abstract, tier2_keywords, tier3_keywords, citing_bibcodes, paper_bibcode) ==
    LET text == Lower(title \o <<" ">> \o abstract)
        matched_t2 == Matched(tier2_keywords, text)
        matched_t3 == Matched(tier3_keywords, text)
    IN  IF matched_t2 # << >>
        THEN [tier |-> Tier(2), reason |-> "Core research topic",
              matched_keywords |-> matched_t2]
        ELSE IF matched_t3 # << >>
        THEN [tier |-> Tier(3), reason |-> "COOL project topic",
              matched_keywords |-> matched_t3]
        ELSE IF CitesMyWork(citing_bibcodes, paper_bibcode)
        THEN [tier |-> Tier(1), reason |-> "Cites your work",
              matched_keywords |-> << >>]
        ELSE [tier |-> NoneVal, reason |-> "No match", matched_keywords |-> << >>]

\* mutant: the tier-3 keywords are tried before the tier-2 keywords
classify_paper_Tier3First(title, abstract, tier2_keywords, tier3_keywords, citing_bibcodes, paper_bibcode) ==
    LET text == Lower(title \o <<" ">> \o abstract)
        matched_t2 == Matched(tier2_keywords, text)
        matched_t3 == Matched(tier3_keywords, text)
    IN  IF CitesMyWork(citing_bibcodes, paper_bibcode)
        THEN [tier |-> Tier(1), reason |-> "Cites your work",
              matched_keywords |-> << >>]
        ELSE IF matched_t3 # << >>
        THEN [tier |-> Tier(3), reason |-> "COOL project topic",
              matched_keywords |-> matched_t3]
        ELSE IF matched_t2 # << >>
        THEN [tier |-> Tier(2), reason |-> "Core research topic",
              matched_keywords |-> matched_t2]
        ELSE [tier |-> NoneVal, reason |-> "No match", matched_keywords |-> << >>]

\* mutant: title and abstract are joined without the space
classify_paper_NoSpace(title, abstract, tier2_keywords, tier3_keywords, citing_bibcodes, paper_bibcode) ==
    LET text == Lower(title \o abstract)
        matched_t2 == Matched(tier2_keywords, text)
        matched_t3 == Matched(tier3_keywords, text)
    IN  IF CitesMyWork(citing_bibcodes, paper_bibcode)
        THEN [tier |-> Tier(1), reason |-> "Cites your work",
              matched_keywords |-> << >>]
        ELSE IF matched_t2 # << >>
        THEN [tier |-> Tier(2), reason |-> "Core research topic",
              matched_keywords |-> matched_t2]
        ELSE IF matched_t3 # << >>
        THEN [tier |-> Tier(3), reason |-> "COOL project topic",
              matched_keywords |-> matched_t3]
        ELSE [tier |-> NoneVal, reason |-> "No match", matched_keywords |-> << >>]

\* mutant: tier 3 is the default of a document no tier-2 keyword matches
classify_paper_Tier3Default(title, abstract, tier2_keywords, tier3_keywords, citing_bibcodes, paper_bibcode) ==
    LET text == Lower(title \o <<" ">> \o abstract)
        matched_t2 == Matched(tier2_keywords, text)
        matched_t3 == Matched(tier3_keywords, text)
    IN  IF CitesMyWork(citing_bibcodes, paper_bibcode)
        THEN [tier |-> Tier(1), reason |-> "Cites your work",
              matched_keywords |-> << >>]
        ELSE IF matched_t2 # << >>
        THEN [tier |-> Tier(2), reason |-> "Core research topic",
              matched_keywords |-> matched_t2]
        ELSE [tier |-> Tier(3), reason |-> "COOL project topic",
              matched_keywords |-> matched_t3]

\* classify_paper
classify_paper(title, abstract, tier2_keywords, tier3_keywords, citing_bibcodes, paper_bibcode) ==
    LET text == Lower(title \o <<" ">> \o abstract)
        matched_t2 == Matched(tier2_keywords, text)
        matched_t3 == Matched(tier3_keywords, text)
    IN  IF CitesMyWork(citing_bibcodes, paper_bibcode)
        THEN [tier |-> Tier(1), reason |-> "Cites your work",
              matched_keywords |-> << >>]
        ELSE IF matched_t2 # << >>
        THEN [tier |-> Tier(2), reason |-> "Core research topic",
              matched_keywords |-> matched_t2]
        ELSE IF matched_t3 # << >>
        THEN [tier |-> Tier(3), reason |-> "COOL project topic",
              matched_keywords |-> matched_t3]
        ELSE [tier |-> NoneVal, reason |-> "No match", matched_keywords |-> << >>]

(***************************************************************************)
(* Inputs of the classifier.                                               *)
(***************************************************************************)
\* the characters of titles and abstracts
TextChars == {"a", "B", " "}

StringsUpTo(chars, n) == UNION {[1..k -> chars] : k \in 0..n}

\* the keywords of the configuration: one per letter, in the other case than
\* the texts use, and one with a space in it
Keywords == {<<"A">>, <<"b">>, <<"a", " ", "B">>}

\* lists of at most MaxKw different keywords
KeywordLists ==
    {l \in StringsUpTo(Keywords, MaxKw) :
        \A i, j \in 1..Len(l) : i # j => l[i] # l[j]}

\* document identifiers (bibcodes, arXiv ids)
Identifiers == {<<"1">>, <<"2">>}

\* the citation index: absent, empty, or a set of identifiers (one of them
\* also holding the empty string)
CitingSets ==
    {NoneVal, SetOf({}), SetOf({<<"1">>}), SetOf({<< >>} \cup Identifiers)}

\* the identifier of the document: absent, empty, or an identifier
PaperBibcodes == {NoneVal, Str(<< >>)} \cup {Str(i) : i \in Identifiers}

(***************************************************************************)
(* SpecClassify: classify_paper as a function of its arguments.  The two   *)
(* keyword lists hold different keywords, or at most MaxKw between them.   *)
(***************************************************************************)
InitClassify ==
    /\ \E title, abstract \in StringsUpTo(TextChars, MaxText) :
          /\ Len(title) + Len(abstract) <= MaxText
          /\ \E tier2, tier3 \in KeywordLists :
                /\ \/ Len(tier2) + Len(tier3) <= MaxKw
                   \/ SeqRange(tier2) \cap SeqRange(tier3) = {}
                /\ \E citing \in CitingSets, bibcode \in PaperBibcodes :
                      args = [title |-> title, abstract |-> abstract,
                              tier2_keywords |-> tier2, tier3_keywords |-> tier3,
                              citing_bibcodes |-> citing, paper_bibcode |-> bibcode]
    /\ ret = EmptyDict
    /\ pc = "call"
    /\ now = 0
    /\ file = NoFile
    /\ file0 = NoFile
    /\ metrics = EmptyDict
    /\ history = EmptyDict
    /\ deltas = EmptyDict
    /\ outcome = "none"
    /\ done = << >>
    /\ runlog = << >>

ClassifyPaper ==
    /\ pc = "call"
    /\ ret' = classify_paper(args.title, args.abstract, args.tier2_keywords,
                             args.tier3_keywords, args.citing_bibcodes,
                             args.paper_bibcode)
    /\ pc' = "returned"
    /\ UNCHANGED <<now, file, metrics, history, deltas, outcome, file0, done,
                   runlog, args>>

NextClassify == ClassifyPaper

SpecClassify == InitClassify /\ [][NextClassify]_vars

(***************************************************************************)
(* SpecCase: classify_paper on texts and keywords with a letter outside    *)
(* ASCII (the micro sign of "3.3 µm").                                     *)
(***************************************************************************)
CaseTextChars == {"a", "B", "U+00B5"}

CaseKeywords == {<<"A">>, <<"b">>, <<"U+00B5">>}

CaseKeywordLists ==
    {l \in StringsUpTo(CaseKeywords, MaxKw) :
        \A i, j \in 1..Len(l) : i # j => l[i] # l[j]}

InitCase ==
    /\ \E title \in StringsUpTo(CaseTextChars, MaxText) :
       \E abstract \in {<< >>, <<"b">>} :
       \E tier2, tier3 \in CaseKeywordLists :
       \E citing \in {NoneVal, SetOf({<<"1">>})} :
          /\ Len(title) + Len(abstract) <= MaxText
          /\ args = [title |-> title, abstract |-> abstract,
                     tier2_keywords |-> tier2, tier3_keywords |-> tier3,
                     citing_bibcodes |-> citing, paper_bibcode |-> Str(<<"1">>)]
    /\ ret = EmptyDict
    /\ pc = "call"
    /\ now = 0
    /\ file = NoFile
    /\ file0 = NoFile
    /\ metrics = EmptyDict
    /\ history = EmptyDict
    /\ deltas = EmptyDict
    /\ outcome = "none"
    /\ done = << >>
    /\ runlog = << >>

SpecCase == InitCase /\ [][NextClassify]_vars

(***************************************************************************)
(* arxiv/classifier.py: classify_papers.  A paper is a dict from field     *)
(* names to values; its text fields hold strings.                          *)
(***************************************************************************)
\* paper.get(key) for a text field: the string, or None
GetStr(paper, key) == IF key \in DOMAIN paper THEN Str(paper[key]) ELSE NoneVal

\* mutant: the citation check is made with the paper's arxiv_id
PaperIdentifier_ArxivId(paper) == GetStr(paper, "arxiv_id")

\* the identifier classify_papers hands to the citation check:
\* paper.get("bibcode"), classifier.py:74
PaperIdentifier(paper) == GetStr(paper, "bibcode")

\* mutant: a paper without a title or without an abstract matches nothing
ClassifyOne_RequiresFields(paper, tier2_keywords, tier3_keywords, citing_bibcodes) ==
    IF {"title", "abstract"} \subseteq DOMAIN paper
    THEN classify_paper(paper.title, paper.abstract, tier2_keywords,
                        tier3_keywords, citing_bibcodes, PaperIdentifier(paper))
    ELSE [tier |-> NoneVal, reason |-> "No match", matched_keywords |-> << >>]

\* the TierResult of one paper of the batch, classifier.py:68-75
ClassifyOne(paper, tier2_keywords, tier3_keywords, citing_bibcodes) ==
    classify_paper(Get(paper, "title", << >>), Get(paper, "abstract", << >>),
                   tier2_keywords, tier3_keywords, citing_bibcodes,
                   PaperIdentifier(paper))

\* mutant: on a key collision the paper's own field is kept
Enriched_PaperWins(paper, result) == paper @@ result

\* {**paper, **result}: the result's fields win
Enriched(paper, result) == result @@ paper

\* mutant: an entry equal to one already in its bucket is not added again
RECURSIVE ClassifyInto_Dedup(_, _, _, _, _)
ClassifyInto_Dedup(tiers, papers, tier2_keywords, tier3_keywords, citing_bibcodes) ==
    IF papers = << >> THEN tiers
    ELSE LET paper == Head(papers)
             result == ClassifyOne(paper, tier2_keywords, tier3_keywords,
                                   citing_bibcodes)
             next == IF /\ result.tier # NoneVal
                        /\ Enriched(paper, result) \notin SeqRange(tiers[result.tier.v])
                     THEN [tiers EXCEPT ![result.tier.v] =
                              Append(@, Enriched(paper, result))]
                     ELSE tiers
         IN  ClassifyInto_Dedup(next, Tail(papers), tier2_keywords,
                                tier3_keywords, citing_bibcodes)

\* mutant: a classified paper is put at the front of its bucket
RECURSIVE ClassifyInto_Prepend(_, _, _, _, _)
ClassifyInto_Prepend(tiers, papers, tier2_keywords, tier3_keywords, citing_bibcodes) ==
    IF papers = << >> THEN tiers
    ELSE LET paper == Head(papers)
             result == ClassifyOne(paper, tier2_keywords, tier3_keywords,
                                   citing_bibcodes)
             next == IF result.tier # NoneVal
                     THEN [tiers EXCEPT ![result.tier.v] =
                              <<Enriched(paper, result)>> \o @]
                     ELSE tiers
         IN  ClassifyInto_Prepend(next, Tail(papers), tier2_keywords,
                                  tier3_keywords, citing_bibcodes)

\* the loop of classify_papers over papers, from the buckets tiers
RECURSIVE ClassifyInto(_, _, _, _, _)
ClassifyInto(tiers, papers, tier2_keywords, tier3_keywords, citing_bibcodes) ==
    IF papers = << >> THEN tiers
    ELSE LET paper == Head(papers)
             result == ClassifyOne(paper, tier2_keywords, tier3_keywords,
                                   citing_bibcodes)
             next == IF result.tier # NoneVal
                     THEN [tiers EXCEPT ![result.tier.v] =
                              Append(@, Enriched(paper, result))]
                     ELSE tiers
         IN  ClassifyInto(next, Tail(papers), tier2_keywords, tier3_keywords,
                          citing_bibcodes)

\* classify_papers
classify_papers(papers, tier2_keywords, tier3_keywords, citing_bibcodes) ==
    ClassifyInto([k \in 1..3 |-> << >>], papers, tier2_keywords,
                 tier3_keywords, citing_bibcodes)

(***************************************************************************)
(* gatherers/arxiv.py: the feed parser, the citer search, gather.          *)
(*                                                                         *)
(* The <id> of a feed entry, an ADS identifier and an API token are        *)
(* strings whose markers ("/abs/", "arXiv:", "${") are single elements.    *)
(***************************************************************************)
\* s.split(sep)[-1]: what follows the last sep, all of s when there is none
RECURSIVE AfterLast(_, _)
AfterLast(str, sep) ==
    IF \E i \in 1..Len(str) : str[i] = sep
    THEN AfterLast(Tail(str), sep)
    ELSE str

\* s.rsplit(sep, 1)[0]: what precedes the last sep
BeforeLast(str, sep) ==
    LET last == CHOOSE i \in 1..Len(str) :
                    str[i] = sep /\ \A j \in (i + 1)..Len(str) : str[j] # sep
    IN  SubSeq(str, 1, last - 1)

\* arxiv.py:40: the version suffix is stripped at the last "v"
CanonicalId(arxiv_id) ==
    IF \E i \in 1..Len(arxiv_id) : arxiv_id[i] = "v"
    THEN BeforeLast(arxiv_id, "v")
    ELSE arxiv_id

Whitespace == {" ", "\n"}

\* str.strip()
RECURSIVE Strip(_)
Strip(str) ==
    IF str = << >> THEN str
    ELSE IF Head(str) \in Whitespace THEN Strip(Tail(str))
    ELSE IF str[Len(str)] \in Whitespace THEN Strip(SubSeq(str, 1, Len(str) - 1))
    ELSE str

\* str.replace("\n", " ")
NoNewlines(str) == [i \in 1..Len(str) |-> IF str[i] = "\n" THEN " " ELSE str[i]]

\* the paper dict of one feed entry (arxiv.py:61-73, the fields that only
\* pass through: authors, categories, dates, comment, urls, are left out)
ParseEntry(entry) ==
    [arxiv_id |-> CanonicalId(AfterLast(entry.id, "/abs/")),
     title |-> NoNewlines(Strip(entry.title)),
     abstract |-> Strip(entry.summary)]

\* _parse_arxiv_entries
parse_arxiv_entries(feed) == [i \in 1..Len(feed) |-> ParseEntry(feed[i])]

\* arxiv.py:108-116: the first paper of each arxiv_id is kept
RECURSIVE Deduplicate(_, _)
Deduplicate(papers, seen) ==
    IF papers = << >> THEN << >>
    ELSE IF Head(papers).arxiv_id \in seen THEN Deduplicate(Tail(papers), seen)
    ELSE <<Head(papers)>>
         \o Deduplicate(Tail(papers), seen \cup {Head(papers).arxiv_id})

\* _fetch_arxiv_papers, given the feed the API answers
fetch_arxiv_papers(feed) == Deduplicate(parse_arxiv_entries(feed), {})

\* ident.replace("arXiv:", "")
WithoutArxivPrefix(ident) == SelectSeq(ident, LAMBDA ch : ch # "arXiv:")

\* _fetch_recent_citers: no token or an unexpanded one gives set(), a failed
\* request gives set(), else the bibcodes and arXiv ids of the docs found
fetch_recent_citers(ads_token, response) ==
    IF ads_token = << >> \/ Head(ads_token) = "${" THEN {}
    ELSE IF response.raised THEN {}
    ELSE {response.docs[i].bibcode : i \in 1..Len(response.docs)}
         \cup {WithoutArxivPrefix(ident) :
                  ident \in {id \in UNION {SeqRange(Get(response.docs[i], "identifier", << >>))
                                             : i \in 1..Len(response.docs)} :
                                id # << >> /\ Head(id) = "arXiv:"}}

\* _paper_summary (arxiv.py:215-226), with the fields the model keeps
PaperSummary(p) ==
    [arxiv_id |-> p.arxiv_id, title |-> p.title, tier |-> p.tier,
     reason |-> p.reason, matched_keywords |-> p.matched_keywords]

Summaries(papers) == [i \in 1..Len(papers) |-> PaperSummary(papers[i])]

\* ArxivGatherer.gather, given the feed and the ADS answer; downloaded is
\* what download_pdfs returns
arxiv_gather(config, feed, ads_token, response, downloaded) ==
    LET papers == fetch_arxiv_papers(feed)
        citing_ids == fetch_recent_citers(ads_token, response)
        tiers == classify_papers(papers, config.tier2_keywords,
                                 config.tier3_keywords, SetOf(citing_ids))
    IN  IF papers = << >>
        THEN [total_new |-> 0, tiers |-> [k \in 1..3 |-> << >>]]
        ELSE [total_new |-> Len(papers),
              tiers |-> [k \in 1..3 |-> Summaries(tiers[k])],
              tier_counts |-> [k \in 1..3 |-> Len(tiers[k])],
              pdfs_downloaded |-> IF tiers[1] \o tiers[2] = << >> THEN 0
                                  ELSE downloaded,
              ads_citations_available |-> citing_ids # {}]

(***************************************************************************)
(* Inputs of classify_papers and of the arXiv run.                         *)
(***************************************************************************)
\* the tier-2 and tier-3 keyword lists of the configuration
KeywordConfigs ==
    {[tier2_keywords |-> <<<<"A">>>>, tier3_keywords |-> <<<<"b">>>>],
     [tier2_keywords |-> <<<<"a", " ", "B">>, <<"b">>>>, tier3_keywords |-> <<<<"A">>>>],
     [tier2_keywords |-> << >>, tier3_keywords |-> <<<<"b">>, <<"A">>>>]}

\* the documents handed to classify_papers directly: with or without a
\* bibcode beside the arxiv_id, one that carries the fields of an earlier
\* classification, and three that lack the title, the abstract or both
Documents ==
    {[arxiv_id |-> id, title |-> t, abstract |-> a] :
        id \in Identifiers, t \in {<<"a">>, << >>}, a \in {<<"B">>, << >>}}
    \cup {[arxiv_id |-> id, title |-> <<"a">>, abstract |-> << >>, bibcode |-> b] :
             id \in Identifiers, b \in {<<"bib", "1">>, <<"bib", "2">>}}
    \cup {[arxiv_id |-> <<"3">>, title |-> <<"a">>, abstract |-> << >>,
           tier |-> Tier(3), reason |-> "COOL project topic",
           matched_keywords |-> <<<<"b">>>>]}
    \cup {[arxiv_id |-> <<"1">>, abstract |-> <<"B">>],
          [arxiv_id |-> <<"1">>, title |-> <<"a">>],
          [arxiv_id |-> <<"1">>]}

\* the citation index handed to classify_papers directly
BatchCitingSets ==
    {NoneVal, SetOf({<<"1">>}), SetOf({<<"bib", "1">>}),
     SetOf({<<"1">>, <<"bib", "1">>, <<"bib", "2">>})}

\* the <id> texts of feed entries: versions 1 and 2 of paper 1, paper 2,
\* and an id without a version suffix
FeedIds ==
    {<<"http://arxiv.org", "/abs/", "1", "v", "1">>,
     <<"http://arxiv.org", "/abs/", "1", "v", "2">>,
     <<"http://arxiv.org", "/abs/", "2", "v", "1">>,
     <<"http://arxiv.org", "/abs/", "2">>}

FeedEntries ==
    {[id |-> id, title |-> t, summary |-> sm] :
        id \in FeedIds, t \in {<<"a">>, <<" ", "B", "\n">>}, sm \in {<<"a">>, <<" ">>}}

\* the ADS api_token of the configuration: none, unexpanded, set
AdsTokens == {<< >>, <<"${", "ADS_API_TOKEN", "}">>, <<"t">>}

\* the docs of the ADS citer search
AdsDocs ==
    {[bibcode |-> <<"bib", "1">>,
      identifier |-> <<<<"arXiv:", "1">>, <<"doi:", "1">>>>],
     [bibcode |-> <<"bib", "2">>]}

AdsResponses ==
    {[raised |-> TRUE, docs |-> << >>]}
    \cup {[raised |-> FALSE, docs |-> d] : d \in StringsUpTo(AdsDocs, 1)}

(***************************************************************************)
(* SpecBatch: a direct call of classify_papers, or a run of the arXiv      *)
(* gatherer.                                                               *)
(***************************************************************************)
InitBatch ==
    /\ \/ /\ pc = "gather"
          /\ \E feed \in StringsUpTo(FeedEntries, MaxPapers) :
             \E config \in KeywordConfigs, token \in AdsTokens :
             \E response \in AdsResponses :
                args = [feed |-> feed, config |-> config,
                        ads_token |-> token, response |-> response]
       \/ /\ pc = "classify_papers"
          /\ \E papers \in StringsUpTo(Documents, MaxPapers) :
             \E config \in KeywordConfigs, citing \in BatchCitingSets :
                args = [papers |-> papers, config |-> config,
                        citing_bibcodes |-> citing]
    /\ ret = EmptyDict
    /\ now = 0
    /\ file = NoFile
    /\ file0 = NoFile
    /\ metrics = EmptyDict
    /\ history = EmptyDict
    /\ deltas = EmptyDict
    /\ outcome = "none"
    /\ done = << >>
    /\ runlog = << >>

ClassifyBatch ==
    /\ pc = "classify_papers"
    /\ ret' = [tiers |-> classify_papers(args.papers, args.config.tier2_keywords,
                                         args.config.tier3_keywords,
                                         args.citing_bibcodes)]
    /\ pc' = "returned"
    /\ UNCHANGED <<now, file, metrics, history, deltas, outcome, file0, done,
                   runlog, args>>

ArxivGather ==
    /\ pc = "gather"
    /\ \E downloaded \in 0..Len(args.feed) :
          ret' = arxiv_gather(args.config, args.feed, args.ads_token,
                              args.response, downloaded)
    /\ pc' = "gathered"
    /\ UNCHANGED <<now, file, metrics, history, deltas, outcome, file0, done,
                   runlog, args>>

NextBatch == ClassifyBatch \/ ArxivGather

SpecBatch == InitBatch /\ [][NextBatch]_vars

(***************************************************************************)
(* gatherers/base.py: safe_gather, around is_available and gather.         *)
(*                                                                         *)
(* A gatherer g is its name, the API token its constructor read from the   *)
(* configuration (config.get("api_token", ""): None for a key the YAML     *)
(* file leaves empty), and what a call of its gather does.                 *)
(***************************************************************************)
\* ADSGatherer.is_available (WeatherGatherer's is the same on its api_key):
\* token.startswith raises AttributeError when the token is no str
TokenAvailable(token) ==
    IF token = NoneVal THEN [raised |-> TRUE, value |-> FALSE]
    ELSE IF token.v # << >> /\ Head(token.v) = "${"
    THEN [raised |-> FALSE, value |-> FALSE]
    ELSE [raised |-> FALSE, value |-> token.v # << >>]

\* is_available: True unless the gatherer overrides it
is_available(g) ==
    IF g.name \in {"ads", "weather"} THEN TokenAvailable(g.token)
    ELSE [raised |-> FALSE, value |-> TRUE]

\* result.setdefault("status", "ok")
SetDefaultStatus(result) == result @@ ("status" :> "ok")

\* mutant: the status of the result is always set to "ok"
SafeResult_ForceOk(outcome_of_gather) ==
    IF outcome_of_gather.raised
    THEN [status |-> "error", error |-> outcome_of_gather.error]
    ELSE IF outcome_of_gather.result = NoneVal
    THEN [status |-> "error", error |-> "'NoneType' object has no attribute 'setdefault'"]
    ELSE ("status" :> "ok") @@ outcome_of_gather.result

\* the try block of safe_gather (base.py:51-59), given what gather did: an
\* Exception raised by gather, or by setdefault on a result that is no dict,
\* becomes an error result
SafeResult(outcome_of_gather) ==
    IF outcome_of_gather.raised
    THEN [status |-> "error", error |-> outcome_of_gather.error]
    ELSE IF outcome_of_gather.result = NoneVal
    THEN [status |-> "error", error |-> "'NoneType' object has no attribute 'setdefault'"]
    ELSE SetDefaultStatus(outcome_of_gather.result)

\* the result for a gatherer that is not available (base.py:46-49)
Skipped(g) ==
    [status |-> "skipped", reason |-> <<g.name, " gatherer is not available">>]

\* the API tokens of a configuration: left empty in the YAML file (None),
\* the empty string, an unexpanded ${VAR}, a token
ConfigTokens ==
    {NoneVal, Str(<< >>), Str(<<"${", "ADS_API_TOKEN", "}">>), Str(<<"t">>)}

\* what a call of gather does: it raises an Exception, or returns a dict
\* without a status, with status "error", with status "ok", or None
GatherOutcomes ==
    {[raised |-> TRUE, error |-> e, result |-> NoneVal] : e \in {"API down", "timeout"}}
    \cup {[raised |-> FALSE, error |-> "", result |-> r] :
             r \in {[author |-> "x"],
                    [status |-> "error", error |-> "No papers found"],
                    [status |-> "ok", author |-> "x"],
                    NoneVal}}

Gatherers ==
    {[name |-> n, token |-> t, gather |-> o] :
        n \in {"ads", "weather"}, t \in ConfigTokens, o \in GatherOutcomes}
    \cup {[name |-> "markets", token |-> Str(<< >>), gather |-> o] : o \in GatherOutcomes}

InitSafe ==
    /\ args \in Gatherers
    /\ ret = EmptyDict
    /\ pc = "safe_gather"
    /\ now = 0
    /\ file = NoFile
    /\ file0 = NoFile
    /\ metrics = EmptyDict
    /\ history = EmptyDict
    /\ deltas = EmptyDict
    /\ outcome = "none"
    /\ done = << >>
    /\ runlog = << >>

\* base.py:45-49: is_available is called outside the try block: what it
\* raises leaves safe_gather
SafeCheck ==
    /\ pc = "safe_gather"
    /\ LET available == is_available(args)
       IN  IF available.raised
           THEN pc' = "propagated" /\ outcome' = "raised" /\ ret' = ret
           ELSE IF ~available.value
           THEN pc' = "returned" /\ outcome' = "ok" /\ ret' = Skipped(args)
           ELSE pc' = "try" /\ outcome' = outcome /\ ret' = ret
    /\ done' = ("is_available" :> now) @@ done
    /\ UNCHANGED <<now, file, metrics, history, deltas, file0, runlog, args>>

\* base.py:50-59: gather is called inside the try block
SafeTry ==
    /\ pc = "try"
    /\ ret' = SafeResult(args.gather)
    /\ pc' = "returned"
    /\ outcome' = "ok"
    /\ done' = ("gather" :> now) @@ done
    /\ UNCHANGED <<now, file, metrics, history, deltas, file0, runlog, args>>

NextSafe == SafeCheck \/ SafeTry

SpecSafe == InitSafe /\ [][NextSafe]_vars

(***************************************************************************)
(* Properties of _compute_deltas (SpecDelta).                              *)
(***************************************************************************)
Returned == pc = "returned"

\* the history keys _compute_deltas may compare against
OtherDates == DOMAIN history \ {Today(now)}

\* the entries of the sections of the delta dl refer to the snapshot prev
PreviousFromIn(dl, prev) ==
    /\ "papers" \in DOMAIN dl
         => Num(dl["papers"].previous) = prev["basic stats"]["number of papers"]
    /\ "citations" \in DOMAIN dl
         => \A k \in DOMAIN dl["citations"] :
               Num(dl["citations"][k].previous) = prev["citation stats"][k]
    /\ "indicators" \in DOMAIN dl
         => \A k \in DOMAIN dl["indicators"] :
               Num(dl["indicators"][k].previous) = prev["indicators"][k]

PreviousFrom(prev) == PreviousFromIn(deltas, prev)

\* C4: when the history has a key other than today's date string, compared_to
\* is the lexicographically greatest such key (an entry for today is skipped,
\* a key later than today is eligible) and the reported previous values are
\* those of the snapshot stored under that key.
C4_ComparesAgainstGreatestOtherDate ==
    (Returned /\ OtherDates # {}) =>
        /\ "compared_to" \in DOMAIN deltas
        /\ deltas["compared_to"] \in OtherDates
        /\ \A d \in OtherDates \ {deltas["compared_to"]} :
               StrLess(d, deltas["compared_to"])
        /\ PreviousFrom(history[deltas["compared_to"]])

C4_Witness ==
    /\ Returned
    /\ Today(now) \in DOMAIN history
    /\ Cardinality(DOMAIN history) = 3
    /\ \E d \in DOMAIN history : StrLess(d, Today(now))
    /\ "compared_to" \in DOMAIN deltas
    /\ StrLess(Today(now), deltas["compared_to"])
    /\ "papers" \in DOMAIN deltas

\* C8: when the history has no date key other than today's (the empty
\* history included), the delta is empty: no compared_to, no section key.
C8_EmptyDeltaWithoutOtherDate ==
    (Returned /\ OtherDates = {}) => DOMAIN deltas = {}

C8_Witness ==
    /\ Returned
    /\ DOMAIN history = {Today(now)}
    /\ metrics # history[Today(now)]
    /\ DOMAIN deltas = {}

\* every value _compute_deltas compares is a number present on both sides
\* and the same on both
SameIn(cur, prev, section, keys) ==
    \A k \in keys :
        LET c == Get(Get(cur, section, EmptyDict), k, NoneVal)
            p == Get(Get(prev, section, EmptyDict), k, NoneVal)
        IN  (IsNumber(c) /\ IsNumber(p)) => c.v = p.v

AllUnchanged(cur, prev) ==
    /\ SameIn(cur, prev, "indicators", SeqRange(IndicatorKeys))
    /\ SameIn(cur, prev, "citation stats", SeqRange(CitationKeys))
    /\ SameIn(cur, prev, "basic stats", {"number of papers"})

\* C9: when the history has a date key other than today's, the delta has
\* compared_to, whether or not a value changed; when no compared value
\* changed the delta is exactly {compared_to: date}.
C9_ComparedToWithoutChange ==
    (Returned /\ OtherDates # {}) =>
        /\ "compared_to" \in DOMAIN deltas
        /\ deltas["compared_to"] \in OtherDates
        /\ AllUnchanged(metrics, history[deltas["compared_to"]])
              => DOMAIN deltas = {"compared_to"}

C9_Witness ==
    /\ Returned
    /\ DOMAIN deltas = {"compared_to"}
    /\ metrics = BaseSnapshot
    /\ history[deltas["compared_to"]] = BaseSnapshot

\* the known indicator keys that are numbers in the current snapshot and in
\* the snapshot compared against
BothNumbers ==
    {k \in SeqRange(IndicatorKeys) :
        /\ IsNumber(Get(Get(metrics, "indicators", EmptyDict), k, NoneVal))
        /\ IsNumber(Get(Get(history[deltas["compared_to"]], "indicators", EmptyDict),
                        k, NoneVal))}

IndEntry(k) == Get(Get(deltas, "indicators", EmptyDict), k, NoneVal)

IndReportedIffChanged(k) ==
    LET c == metrics["indicators"][k].v
        p == history[deltas["compared_to"]]["indicators"][k].v
    IN  /\ (IndEntry(k) # NoneVal) <=> (c # p)
        /\ IndEntry(k) # NoneVal
              => IndEntry(k).current = c /\ IndEntry(k).previous = p

\* C10 as stated: a known indicator that is a number in both snapshots is
\* reported exactly when the values differ, with delta = current - previous.
C10_DeltaIsExactDifference ==
    (Returned /\ "compared_to" \in DOMAIN deltas) =>
        \A k \in BothNumbers :
            /\ IndReportedIffChanged(k)
            /\ IndEntry(k) # NoneVal
                  => IndEntry(k).delta = IndEntry(k).current - IndEntry(k).previous

\* C10 amended: ... with delta = current - previous rounded to 2 decimal
\* places: a whole number of hundredths within half a hundredth of the
\* difference (the difference itself when it has at most 2 decimals).
C10_DeltaIsRoundedDifference ==
    (Returned /\ "compared_to" \in DOMAIN deltas) =>
        \A k \in BothNumbers :
            /\ IndReportedIffChanged(k)
            /\ IndEntry(k) # NoneVal
                  => LET e == IndEntry(k)
                         err == e.delta - (e.current - e.previous)
                     IN  /\ e.delta % 10 = 0
                         /\ -5 <= err /\ err <= 5
                         /\ (e.current - e.previous) % 10 = 0 => err = 0

C10_Witness ==
    /\ Returned
    /\ "indicators" \in DOMAIN deltas
    /\ DOMAIN deltas["indicators"] = {"h", "read10"}
    /\ deltas["indicators"]["h"] = [current |-> 39000, previous |-> 38000, delta |-> 1000]
    /\ deltas["indicators"]["read10"].delta = 10
    /\ deltas["indicators"]["read10"].current = 18406

\* the snapshot the delta was computed against
Compared == history[deltas["compared_to"]]

\* the value of a metric in a snapshot, NoneVal when the section or the key
\* is missing or the value is null
ValueIn(snapshot, section, k) ==
    Get(Get(snapshot, section, EmptyDict), k, NoneVal)

\* the entry the delta reports for a key of one of its sections
EntryIn(dsection, k) == Get(Get(deltas, dsection, EmptyDict), k, NoneVal)

\* the entry reported for the paper count
PapersEntry == Get(deltas, "papers", NoneVal)

\* entry is reported exactly when c and p are numbers that differ, and is
\* then {current: c, previous: p, delta: c - p}
ExactEntryIffChanged(entry, c, p) ==
    /\ (entry # NoneVal) <=> (IsNumber(c) /\ IsNumber(p) /\ c.v # p.v)
    /\ entry # NoneVal
          => entry = [current |-> c.v, previous |-> p.v, delta |-> c.v - p.v]

\* C11: for each of the two fixed citation keys, and for the paper count, an
\* entry {current, previous, delta} is reported under "citations" (per key)
\* resp. "papers" exactly when the value exists in both snapshots and differs,
\* and its delta is the exact difference current - previous; "citations"
\* holds no other key.
C11_CountsReportedIffChanged ==
    (Returned /\ "compared_to" \in DOMAIN deltas) =>
        /\ \A k \in SeqRange(CitationKeys) :
               ExactEntryIffChanged(EntryIn("citations", k),
                                    ValueIn(metrics, "citation stats", k),
                                    ValueIn(Compared, "citation stats", k))
        /\ DOMAIN Get(deltas, "citations", EmptyDict) \subseteq SeqRange(CitationKeys)
        /\ ExactEntryIffChanged(PapersEntry,
                                ValueIn(metrics, "basic stats", "number of papers"),
                                ValueIn(Compared, "basic stats", "number of papers"))

C11_Witness ==
    /\ Returned
    /\ "citations" \in DOMAIN deltas
    /\ DOMAIN deltas["citations"] = {"total number of citations"}
    /\ deltas["citations"]["total number of citations"].delta = 50000
    /\ ValueIn(metrics, "citation stats", "number of citing papers") = Num(4200000)
    /\ ValueIn(Compared, "basic stats", "number of papers") = Num(0)
    /\ PapersEntry = [current |-> 142000, previous |-> 0, delta |-> 142000]

\* the sections of a snapshot and the delta key their changes are reported
\* under
DeltaSections ==
    {<<"indicators", "indicators">>, <<"citation stats", "citations">>}

\* C12: a metric that is missing or null in the current snapshot or in the
\* snapshot compared against has no entry in any section of the delta,
\* whatever the value on the other side.
C12_MissingIsUnknown ==
    (Returned /\ "compared_to" \in DOMAIN deltas) =>
        /\ \A sec \in DeltaSections :
               \A k \in DOMAIN Get(deltas, sec[2], EmptyDict) :
                   /\ IsNumber(ValueIn(metrics, sec[1], k))
                   /\ IsNumber(ValueIn(Compared, sec[1], k))
        /\ PapersEntry # NoneVal =>
               /\ IsNumber(ValueIn(metrics, "basic stats", "number of papers"))
               /\ IsNumber(ValueIn(Compared, "basic stats", "number of papers"))

C12_Witness ==
    /\ Returned
    /\ "citations" \in DOMAIN deltas
    /\ "total number of citations" \notin DOMAIN metrics["citation stats"]
    /\ ValueIn(Compared, "citation stats", "total number of citations") = Num(5000000)
    /\ DOMAIN deltas["citations"] = {"number of citing papers"}

(***************************************************************************)
(* Properties of the runs of gather (Spec).                                *)
(***************************************************************************)
\* the JSON object in the file f, {} when there is none
Stored(f) == IF f.state = "ok" THEN f.data ELSE EmptyDict

\* this step is the save of the current run's snapshot
Saves == file' # file

\* this step is the delta computation of the current run
Compares == "compare" \in DOMAIN done' /\ "compare" \notin DOMAIN done

\* C3: in every run, the delta is computed from the history as the file held
\* it before this run wrote anything (the comparison basis is an entry of
\* that file), and the file is written only after this run's delta has been
\* computed.
C3_CompareThenSave ==
    [][ /\ Saves => "compare" \in DOMAIN done
        /\ Compares =>
              /\ file = file0 /\ file' = file
              /\ json_dump(history') = Stored(file0)
              /\ "compared_to" \in DOMAIN deltas'
                    => /\ deltas'["compared_to"] \in DOMAIN Stored(file0)
                       /\ PreviousFromIn(deltas', history'[deltas'["compared_to"]])
      ]_vars

C3_Witness ==
    /\ pc = "return"
    /\ file # file0
    /\ "compared_to" \in DOMAIN deltas
    /\ "indicators" \in DOMAIN deltas
    /\ Today(done["save"]) \in DOMAIN file0.data

IsOk(e) == e.status = "ok"

\* the successful runs so far, in order
OkRuns == SelectSeq(runlog, IsOk)

\* the run took place on one date: every statement ran on the day of the call
OnOneDate(e) == \A k \in DOMAIN e.days : e.days[k] = e.days["call"]

\* the successful runs started from no history, each took place on one date,
\* and their dates are strictly increasing
DailyRunsFromNoHistory ==
    /\ OkRuns # << >>
    /\ OkRuns[1].file_state = "absent"
    /\ \A i \in 1..Len(OkRuns) : OnOneDate(OkRuns[i])
    /\ \A i \in 1..(Len(OkRuns) - 1) :
           OkRuns[i].days["call"] < OkRuns[i + 1].days["call"]

C6_SaveWritesOneDate ==
    [][ /\ Saves =>
              /\ file'.state = "ok"
              /\ DOMAIN file'.data = DOMAIN Stored(file) \cup {Today(now)}
              /\ json_load(file'.data)[Today(now)] = metrics
              /\ \A k \in DOMAIN Stored(file) \ {Today(now)} :
                     file'.data[k] = Stored(file)[k]
        /\ file.state = "ok" =>
              /\ file'.state = "ok"
              /\ DOMAIN file.data \subseteq DOMAIN file'.data
      ]_vars

C6_Witness ==
    /\ pc = "return"
    /\ file0.state = "ok"
    /\ Today(done["save"]) \in DOMAIN file0.data
    /\ file.data[Today(done["save"])] # file0.data[Today(done["save"])]
    /\ Cardinality(DOMAIN file.data) >= 2

Unreadable(f) == f.state \in {"corrupt", "null"}

\* this step ends a run
RunEnds == Len(runlog') > Len(runlog)

\* C7: when the history file exists but cannot be read as a history, no run
\* returns a result (a run that reaches the history raises; for a file that
\* fails to load it raises at the load, before any delta is computed), and
\* the file is left as it is.
C7_UnreadableHistoryIsHardError ==
    [][ Unreadable(file) =>
          /\ file' = file
          /\ RunEnds =>
                /\ outcome' # "ok"
                /\ "fetch" \in DOMAIN done => outcome' = "raised"
                /\ file.state = "corrupt" => "compare" \notin DOMAIN done
      ]_vars

C7_Witness ==
    /\ file.state = "corrupt"
    /\ \E i \in 1..Len(runlog) :
          /\ runlog[i].status = "raised"
          /\ DOMAIN runlog[i].days = {"call", "fetch"}

(***************************************************************************)
(* Properties of classify_paper (SpecClassify).                            *)
(***************************************************************************)
\* the text classify_paper searches
SearchText == Lower(args.title \o <<" ">> \o args.abstract)

SomeKeywordOccurs(keywords) ==
    \E i \in 1..Len(keywords) : Contains(SearchText, Lower(keywords[i]))

\* the document's identifier is non-empty and a member of a non-empty
\* citation index
InCitationIndex ==
    /\ args.citing_bibcodes # NoneVal
    /\ args.paper_bibcode # NoneVal
    /\ args.paper_bibcode.v # << >>
    /\ args.paper_bibcode.v \in args.citing_bibcodes.v

\* C1: a document whose non-empty identifier is in the citation index gets
\* tier 1, reason "Cites your work" and no matched keywords, whatever tier-2
\* or tier-3 keywords occur in its text.
C1_CitationWins ==
    (Returned /\ InCitationIndex) =>
        ret = [tier |-> Tier(1), reason |-> "Cites your work",
               matched_keywords |-> << >>]

C1_Witness ==
    /\ Returned
    /\ InCitationIndex
    /\ SomeKeywordOccurs(args.tier2_keywords)
    /\ SomeKeywordOccurs(args.tier3_keywords)
    /\ ret.tier = Tier(1)

\* the positions of the keywords of a list whose lower-cased form is a
\* substring of the search text
MatchingPositions(keywords) ==
    {i \in 1..Len(keywords) : Contains(SearchText, Lower(keywords[i]))}

\* sub lists the elements of seq at the positions P, in the order of seq
IsSelection(sub, seq, P) ==
    /\ Len(sub) = Cardinality(P)
    /\ \A j \in 1..Len(sub) :
           sub[j] = seq[CHOOSE i \in P : Cardinality({x \in P : x <= i}) = j]

\* C13: when the citation check does not fire and at least one tier-2
\* keyword occurs in the text, the result is tier 2 with reason "Core
\* research topic", however many tier-3 keywords occur, and every matched
\* keyword is a tier-2 keyword that occurs in the text.
C13_Tier2OverTier3 ==
    (Returned /\ ~InCitationIndex /\ SomeKeywordOccurs(args.tier2_keywords)) =>
        /\ ret.tier = Tier(2)
        /\ ret.reason = "Core research topic"
        /\ \A j \in 1..Len(ret.matched_keywords) :
               \E i \in MatchingPositions(args.tier2_keywords) :
                   ret.matched_keywords[j] = args.tier2_keywords[i]

C13_Witness ==
    /\ Returned
    /\ ~InCitationIndex
    /\ SomeKeywordOccurs(args.tier2_keywords)
    /\ Cardinality(MatchingPositions(args.tier3_keywords)) = 2
    /\ SeqRange(args.tier2_keywords) \cap SeqRange(args.tier3_keywords) = {}
    /\ ret.tier = Tier(2)

\* C14: for a tier-2 (resp. tier-3) result, matched_keywords is exactly the
\* subsequence of the tier-2 (resp. tier-3) keyword list, in input order and
\* in original case, of the keywords whose lower-cased form is a substring
\* of the lower-cased text.
C14_MatchedIsExactSubsequence ==
    Returned =>
        /\ ret.tier = Tier(2) =>
               IsSelection(ret.matched_keywords, args.tier2_keywords,
                           MatchingPositions(args.tier2_keywords))
        /\ ret.tier = Tier(3) =>
               IsSelection(ret.matched_keywords, args.tier3_keywords,
                           MatchingPositions(args.tier3_keywords))

C14_Witness ==
    /\ Returned
    /\ ret.tier = Tier(3)
    /\ Len(args.tier3_keywords) = 2
    /\ MatchingPositions(args.tier3_keywords) = {2}
    /\ ret.matched_keywords = <<<<"A">>>>

\* the result of a document that matches nothing
NoMatch == [tier |-> NoneVal, reason |-> "No match", matched_keywords |-> << >>]

\* no keyword of the list occurs (case-insensitively) in the title, and none
\* in the abstract
NoKeywordInTitleOrAbstract(keywords) ==
    \A i \in 1..Len(keywords) :
        /\ ~Contains(Lower(args.title), Lower(keywords[i]))
        /\ ~Contains(Lower(args.abstract), Lower(keywords[i]))

\* C15 as stated: a document whose title and abstract contain none of the
\* tier-2 or tier-3 keywords and whose identifier is not in the citation
\* index gets tier None, reason "No match" and no matched keywords.
C15_NoMatchByFields ==
    (/\ Returned /\ ~InCitationIndex
     /\ NoKeywordInTitleOrAbstract(args.tier2_keywords)
     /\ NoKeywordInTitleOrAbstract(args.tier3_keywords)) => ret = NoMatch

\* C15 amended: a document whose search text (title, one space, abstract,
\* lower-cased) contains none of the lower-cased tier-2 or tier-3 keywords
\* and whose identifier is not in the citation index gets tier None, reason
\* "No match" and no matched keywords.
C15_NoMatchBySearchText ==
    (/\ Returned /\ ~InCitationIndex
     /\ ~SomeKeywordOccurs(args.tier2_keywords)
     /\ ~SomeKeywordOccurs(args.tier3_keywords)) => ret = NoMatch

C15_Witness ==
    /\ Returned
    /\ ret = NoMatch
    /\ args.citing_bibcodes = SetOf({<<"1">>})
    /\ args.paper_bibcode = Str(<<"2">>)
    /\ Len(args.tier2_keywords) = 2
    /\ args.tier3_keywords # << >>
    /\ Len(args.title) + Len(args.abstract) = 3

\* C16: tier is one of 1, 2, 3, None; the reason is the one of the tier;
\* matched_keywords is empty exactly for tier 1 and None.
C16_TierResultWellFormed ==
    Returned =>
        /\ ret.tier \in {Tier(1), Tier(2), Tier(3), NoneVal}
        /\ ret.reason = "Cites your work" <=> ret.tier = Tier(1)
        /\ ret.reason = "Core research topic" <=> ret.tier = Tier(2)
        /\ ret.reason = "COOL project topic" <=> ret.tier = Tier(3)
        /\ ret.reason = "No match" <=> ret.tier = NoneVal
        /\ ret.matched_keywords = << >> <=> ret.tier \in {Tier(1), NoneVal}

C16_Witness ==
    /\ Returned
    /\ ret.tier = Tier(3)
    /\ ret.reason = "COOL project topic"
    /\ Len(ret.matched_keywords) = 2
    /\ args.tier2_keywords # << >>

(***************************************************************************)
(* Case-insensitivity of classify_paper (SpecCase).                        *)
(***************************************************************************)
\* the characters of the model
AllChars == {"a", "A", "b", "B", " ", "U+00B5", "U+039C", "U+03BC"}

\* str.upper() on one character: the upper-case letter of a lower-case
\* letter; the micro sign and small mu both have capital mu
UpperChar(ch) ==
    IF ch = "a" THEN "A"
    ELSE IF ch = "b" THEN "B"
    ELSE IF ch \in {"U+00B5", "U+03BC"} THEN "U+039C"
    ELSE ch

\* the strings that differ from str in letter case only: the same letters,
\* character by character, in upper or lower case
CaseVariants(str) ==
    {v \in [1..Len(str) -> AllChars] :
        \A i \in 1..Len(str) : UpperChar(v[i]) = UpperChar(str[i])}

\* the argument lists that differ from a in the letter case of the title,
\* of the abstract or of one keyword
CaseVariantsOfArgs(a) ==
    {[a EXCEPT !.title = v] : v \in CaseVariants(a.title)}
    \cup {[a EXCEPT !.abstract = v] : v \in CaseVariants(a.abstract)}
    \cup UNION {{[a EXCEPT !.tier2_keywords[i] = v] :
                    v \in CaseVariants(a.tier2_keywords[i])}
                : i \in 1..Len(a.tier2_keywords)}
    \cup UNION {{[a EXCEPT !.tier3_keywords[i] = v] :
                    v \in CaseVariants(a.tier3_keywords[i])}
                : i \in 1..Len(a.tier3_keywords)}

ClassifyArgs(a) ==
    classify_paper(a.title, a.abstract, a.tier2_keywords, a.tier3_keywords,
                   a.citing_bibcodes, a.paper_bibcode)

\* the positions, in the keyword list of the result's tier, of the keywords
\* reported as matched
MatchedAt(result, a) ==
    LET list == IF result.tier = Tier(2) THEN a.tier2_keywords
                ELSE IF result.tier = Tier(3) THEN a.tier3_keywords
                ELSE << >>
    IN  {i \in 1..Len(list) : list[i] \in SeqRange(result.matched_keywords)}

\* C20: replacing the title, the abstract or a keyword by a version that
\* differs only in letter case changes neither the tier nor the positions of
\* the keywords reported as matched.
C20_CaseInsensitive ==
    Returned =>
        \A b \in CaseVariantsOfArgs(args) :
            /\ ClassifyArgs(b).tier = ret.tier
            /\ MatchedAt(ClassifyArgs(b), b) = MatchedAt(ret, args)

(***************************************************************************)
(* Properties of classify_papers and the arXiv run (SpecBatch).            *)
(***************************************************************************)
\* the identifiers of the entries of a bucket
BucketIds(bucket) == {bucket[i].arxiv_id : i \in 1..Len(bucket)}

\* the papers the arXiv run classifies, and the citation index it supplies
GatheredPapers == fetch_arxiv_papers(args.feed)

GatheredCiters == fetch_recent_citers(args.ads_token, args.response)

\* C2: every document of the batch whose own identifier (the arxiv_id it
\* carries) is in the supplied citation index ends up in bucket 1, also in
\* the gather pipeline, where the index is what the citer search returned.
C2_IdentifierInIndexGivesTier1 ==
    /\ pc = "returned" =>
          \A i \in 1..Len(args.papers) :
              (/\ args.citing_bibcodes # NoneVal
               /\ args.papers[i].arxiv_id \in args.citing_bibcodes.v)
                  => args.papers[i].arxiv_id \in BucketIds(ret.tiers[1])
    /\ pc = "gathered" =>
          \A i \in 1..Len(GatheredPapers) :
              GatheredPapers[i].arxiv_id \in GatheredCiters
                  => GatheredPapers[i].arxiv_id \in BucketIds(ret.tiers[1])

\* the TierResult of the i-th document of the batch
ResultOf(i) ==
    ClassifyOne(args.papers[i], args.config.tier2_keywords,
                args.config.tier3_keywords, args.citing_bibcodes)

\* the positions of the input documents classified into tier k
PositionsOf(k) == {i \in 1..Len(args.papers) : ResultOf(i).tier = Tier(k)}

\* the fields a TierResult has
ResultFields == {"tier", "reason", "matched_keywords"}

\* the entry has the fields of the document and the classification fields,
\* and every field that is no classification field has the document's value
FromPaper(entry, paper) ==
    /\ DOMAIN entry = DOMAIN paper \cup ResultFields
    /\ \A f \in DOMAIN paper \ ResultFields : entry[f] = paper[f]

\* how many entries of the bucket come from the document
EntriesFrom(bucket, paper) ==
    Cardinality({j \in 1..Len(bucket) : FromPaper(bucket[j], paper)})

\* how many times the document occurs in the input
Occurrences(paper) ==
    Cardinality({i \in 1..Len(args.papers) : args.papers[i] = paper})

\* C17: each bucket holds one entry per occurrence of each input document
\* classified into its tier (duplicates kept), a document classified None has
\* no entry in any bucket, and the bucket sizes add up to the number of
\* classified documents.
C17_OneEntryPerClassifiedDocument ==
    pc = "returned" =>
        /\ \A k \in 1..3 : \A i \in 1..Len(args.papers) :
               EntriesFrom(ret.tiers[k], args.papers[i]) =
                   IF ResultOf(i).tier = Tier(k) THEN Occurrences(args.papers[i])
                   ELSE 0
        /\ Len(ret.tiers[1]) + Len(ret.tiers[2]) + Len(ret.tiers[3]) =
               Cardinality({i \in 1..Len(args.papers) : ResultOf(i).tier # NoneVal})

C17_Witness ==
    /\ pc = "returned"
    /\ Len(args.papers) = 2
    /\ args.papers[1] = args.papers[2]
    /\ Len(ret.tiers[2]) = 2

\* the i-th smallest element of a set of positions
NthOf(P, j) == CHOOSE i \in P : Cardinality({x \in P : x <= i}) = j

\* C18: inside each bucket the entries follow the input order: the j-th entry
\* of bucket k comes from the j-th input document classified into tier k.
C18_BucketsKeepInputOrder ==
    pc = "returned" =>
        \A k \in 1..3 :
            /\ Len(ret.tiers[k]) = Cardinality(PositionsOf(k))
            /\ \A j \in 1..Len(ret.tiers[k]) :
                   FromPaper(ret.tiers[k][j], args.papers[NthOf(PositionsOf(k), j)])

C18_Witness ==
    /\ pc = "returned"
    /\ Len(ret.tiers[3]) = 2
    /\ args.papers[1].arxiv_id = <<"2">>
    /\ args.papers[2].arxiv_id = <<"1">>
    /\ ret.tiers[3][1].arxiv_id = <<"2">>

\* the reason that goes with a tier
ReasonOf(k) ==
    IF k = 1 THEN "Cites your work"
    ELSE IF k = 2 THEN "Core research topic" ELSE "COOL project topic"

\* C19: an entry of bucket k has the fields of its document and the three
\* classification fields; tier is k, reason and matched_keywords are those of
\* the document's TierResult, also when the document had such fields itself.
C19_ClassificationFieldsWin ==
    pc = "returned" =>
        \A k \in 1..3 :
            /\ Len(ret.tiers[k]) = Cardinality(PositionsOf(k))
            /\ \A j \in 1..Len(ret.tiers[k]) :
                   LET entry == ret.tiers[k][j]
                       i == NthOf(PositionsOf(k), j)
                   IN  /\ FromPaper(entry, args.papers[i])
                       /\ entry.tier = Tier(k)
                       /\ entry.reason = ReasonOf(k)
                       /\ entry.matched_keywords = ResultOf(i).matched_keywords

C19_Witness ==
    /\ pc = "returned"
    /\ \E i \in 1..Len(args.papers) :
          /\ "tier" \in DOMAIN args.papers[i]
          /\ args.papers[i].tier = Tier(3)
          /\ \E j \in 1..Len(ret.tiers[2]) :
                 /\ ret.tiers[2][j].arxiv_id = args.papers[i].arxiv_id
                 /\ ret.tiers[2][j].tier = Tier(2)
                 /\ ret.tiers[2][j].matched_keywords = <<<<"A">>>>

(***************************************************************************)
(* Further properties of the runs of gather (Spec) and of _compute_deltas  *)
(* (SpecDelta).                                                            *)
(***************************************************************************)
\* this step executes a statement of gather (the clock does not move)
Executes(stmt) == pc = stmt /\ pc' # pc

\* C21: with no history file, loading the history does not fail and gives
\* the empty mapping (the delta is then empty), the save leaves a file that
\* holds exactly today's snapshot, and a run that started without a file
\* and got its metrics ends normally.
C21_FirstRunWithoutHistory ==
    [][ /\ (Executes("compare") /\ file.state = "absent") =>
              /\ pc' = "save"
              /\ history' = EmptyDict
              /\ deltas' = EmptyDict
        /\ (Executes("save") /\ file.state = "absent") =>
              /\ file'.state = "ok"
              /\ json_load(file'.data) = (Today(now) :> metrics)
        /\ (RunEnds /\ file0.state = "absent" /\ "fetch" \in DOMAIN done) =>
              outcome' = "ok"
      ]_vars

C21_Witness ==
    /\ pc = "idle"
    /\ Len(runlog) = 1
    /\ runlog[1].status = "ok"
    /\ runlog[1].file_state = "absent"
    /\ runlog[1].compared_to = << >>
    /\ file.state = "ok"
    /\ DOMAIN file.data = {Today(runlog[1].days["save"])}

\* C22: a call of _compute_deltas leaves the history it was given (its keys
\* and every snapshot), the current snapshot and the history file as they
\* were.
C22_ComputeDeltasIsPure ==
    [][ (pc = "call" /\ pc' = "returned") =>
            /\ history' = history
            /\ metrics' = metrics
            /\ file' = file
      ]_vars

C22_Witness ==
    /\ Returned
    /\ "indicators" \in DOMAIN deltas
    /\ Today(now) \notin DOMAIN history
    /\ Cardinality(DOMAIN history) = 2
    /\ file = NoFile

(***************************************************************************)
(* Properties of safe_gather (SpecSafe).                                   *)
(***************************************************************************)
\* C23: safe_gather never lets an exception out; a gatherer that is not
\* available gets status "skipped" and its gather is not called; when gather
\* raises, the result has status "error" and the error text; otherwise the
\* result is gather's, with status "ok" when it had none.
C23_SafeGatherNeverPropagates ==
    /\ pc # "propagated"
    /\ pc = "returned" =>
          IF "gather" \notin DOMAIN done
          THEN ret.status = "skipped"
          ELSE IF args.gather.raised
          THEN ret = [status |-> "error", error |-> args.gather.error]
          ELSE args.gather.result # NoneVal =>
                  /\ \A k \in DOMAIN args.gather.result : ret[k] = args.gather.result[k]
                  /\ DOMAIN ret = DOMAIN args.gather.result \cup {"status"}
                  /\ "status" \notin DOMAIN args.gather.result => ret.status = "ok"

\* the same without its first clause: what safe_gather returns when it
\* returns
C23_ReturnedResults == pc = "propagated" \/ C23_SafeGatherNeverPropagates

(***************************************************************************)
(* Further properties of classify_paper (SpecClassify).                    *)
(***************************************************************************)
\* the citation index is absent or empty, or the identifier is absent or
\* empty
NoCitationEvidence ==
    \/ args.citing_bibcodes = NoneVal
    \/ args.citing_bibcodes.v = {}
    \/ args.paper_bibcode = NoneVal
    \/ args.paper_bibcode.v = << >>

\* the tier the keywords alone give: 2 when a tier-2 keyword occurs, else 3
\* when a tier-3 keyword occurs, else None
KeywordTier ==
    IF SomeKeywordOccurs(args.tier2_keywords) THEN Tier(2)
    ELSE IF SomeKeywordOccurs(args.tier3_keywords) THEN Tier(3)
    ELSE NoneVal

\* C24: when the citation index is absent or empty, or the identifier is
\* absent or empty, the result is never tier 1: its tier is the one the
\* keywords give.
C24_NoTier1WithoutEvidence ==
    (Returned /\ NoCitationEvidence) =>
        /\ ret.tier # Tier(1)
        /\ ret.tier = KeywordTier

C24_Witness ==
    /\ Returned
    /\ args.paper_bibcode = Str(<< >>)
    /\ args.citing_bibcodes # NoneVal
    /\ << >> \in args.citing_bibcodes.v
    /\ ret.tier = Tier(3)

(***************************************************************************)
(* Further properties of _compute_deltas (SpecDelta).                      *)
(***************************************************************************)
\* C25: the indicators section of the delta holds only keys of the fixed
\* indicator list; a key outside the list is not reported, also when it is a
\* number in both snapshots and the two values differ.
C25_OnlyKnownIndicators ==
    Returned =>
        DOMAIN Get(deltas, "indicators", EmptyDict) \subseteq
            {"h", "g", "m", "i10", "i100", "tori", "riq", "read10"}

C25_Witness ==
    /\ Returned
    /\ "compared_to" \in DOMAIN deltas
    /\ ValueIn(metrics, "indicators", "zz") = Num(8000)
    /\ ValueIn(Compared, "indicators", "zz") = Num(7000)
    /\ EntryIn("indicators", "zz") = NoneVal

\* the lower-cased title, one space, the lower-cased abstract
FieldsText == Lower(args.title) \o <<" ">> \o Lower(args.abstract)

\* the keyword, lower-cased, is a substring of FieldsText
OccursInFields(kw) ==
    \E i \in 1..Len(FieldsText) :
        /\ i + Len(kw) - 1 <= Len(FieldsText)
        /\ \A j \in 1..Len(kw) : FieldsText[i + j - 1] = LowerChar(kw[j])

\* the keyword list the result's matched keywords are taken from
ListOfTier(tier) ==
    IF tier = Tier(2) THEN args.tier2_keywords
    ELSE IF tier = Tier(3) THEN args.tier3_keywords
    ELSE << >>

\* C26: when the citation check does not fire, the tier and the matched
\* keywords are those of raw substring search in the lower-cased title, one
\* space, the lower-cased abstract: a keyword is matched exactly when it
\* occurs there, be it across the space or inside a longer word.
C26_SubstringInJoinedText ==
    (Returned /\ ~InCitationIndex) =>
        /\ ret.tier = Tier(2)
              <=> \E kw \in SeqRange(args.tier2_keywords) : OccursInFields(kw)
        /\ ret.tier = Tier(3)
              <=> /\ \A kw \in SeqRange(args.tier2_keywords) : ~OccursInFields(kw)
                  /\ \E kw \in SeqRange(args.tier3_keywords) : OccursInFields(kw)
        /\ \A kw \in SeqRange(ListOfTier(ret.tier)) :
               kw \in SeqRange(ret.matched_keywords) <=> OccursInFields(kw)

\* "a B" occurs in neither field and matches across the space; "b" matches
\* inside the word "Ba"
C26_Witness ==
    /\ Returned
    /\ args.title = <<"B", "a">>
    /\ args.abstract = <<"B">>
    /\ ret.tier = Tier(2)
    /\ ret.matched_keywords = <<<<"a", " ", "B">>, <<"b">>>>

(***************************************************************************)
(* Further properties of classify_papers (SpecBatch).                      *)
(***************************************************************************)
\* the document with an empty string for a title or abstract it lacks
Completed(paper) == paper @@ [title |-> << >>, abstract |-> << >>]

\* the TierResult of the completed i-th document
CompletedResultOf(i) ==
    ClassifyOne(Completed(args.papers[i]), args.config.tier2_keywords,
                args.config.tier3_keywords, args.citing_bibcodes)

\* C27: a document that lacks its title or its abstract is classified as
\* the same document with the empty string in that place: it is in the
\* bucket, and has the reason and the matched keywords, that document gets,
\* and in no bucket when that document matches nothing.
C27_MissingTextIsEmpty ==
    pc = "returned" =>
        \A i \in 1..Len(args.papers) :
            LET r == CompletedResultOf(i)
            IN  \A k \in 1..3 :
                   IF r.tier = Tier(k)
                   THEN \E j \in 1..Len(ret.tiers[k]) :
                           /\ FromPaper(ret.tiers[k][j], args.papers[i])
                           /\ ret.tiers[k][j].reason = r.reason
                           /\ ret.tiers[k][j].matched_keywords = r.matched_keywords
                   ELSE EntriesFrom(ret.tiers[k], args.papers[i]) = 0

C27_Witness ==
    /\ pc = "returned"
    /\ Len(args.papers) = 2
    /\ DOMAIN args.papers[1] = {"arxiv_id", "abstract"}
    /\ DOMAIN args.papers[2] = {"arxiv_id"}
    /\ Len(ret.tiers[3]) = 1
    /\ ret.tiers[3][1].matched_keywords = <<<<"b">>>>
    /\ DOMAIN ret.tiers[3][1] = {"arxiv_id", "abstract"} \cup ResultFields

(***************************************************************************)
(* Further properties of the runs of gather (Spec).                        *)
(***************************************************************************)
\* C28: once a run that found a history has saved its snapshot, the file
\* holds it under the date the run's delta computation took for today, and
\* that is the only date key the run added, also when midnight passed
\* between the two.
C28_SavedUnderComparedDate ==
    (pc = "return" /\ Truthy(history)) =>
        LET d == Today(done["compare"])
        IN  /\ d \in DOMAIN file.data
            /\ json_load(file.data)[d] = metrics
            /\ DOMAIN file.data = DOMAIN Stored(file0) \cup {d}

\* the same for the runs in which the date did not change between the delta
\* computation and the save
C28_SavedUnderComparedDateSameDay ==
    (pc = "return" /\ done["save"] = done["compare"]) =>
        LET d == Today(done["compare"])
        IN  /\ d \in DOMAIN file.data
            /\ json_load(file.data)[d] = metrics
            /\ DOMAIN file.data = DOMAIN Stored(file0) \cup {d}

\* the entries of the indicators section of the delta
IndEntries ==
    {deltas["indicators"][k] : k \in DOMAIN Get(deltas, "indicators", EmptyDict)}

\* C29 as stated: no entry of the indicators section has a delta of 0,
\* whatever the number of decimal places of the values.
C29_DeltaNeverZero ==
    Returned => \A e \in IndEntries : e.delta # 0

\* C29 amended: no entry of the indicators section has current = previous;
\* its delta, the difference rounded to 2 decimal places, is 0 only for a
\* difference of at most half a hundredth, and never for values with at most
\* 2 decimal places.
C29_DeltaZeroOnlyBelowHalfHundredth ==
    Returned =>
        \A e \in IndEntries :
            LET diff == e.current - e.previous
            IN  /\ diff # 0
                /\ e.delta = 0 => (-5 <= diff /\ diff <= 5)
                /\ diff % 10 = 0 => e.delta # 0

C29_Witness ==
    /\ Returned
    /\ EntryIn("indicators", "read10") =
          [current |-> 18401, previous |-> 18400, delta |-> 0]

\* C30: a run of gather that ends before its delta computation (no bibcode
\* found, or the bibcode or metrics fetch raises) leaves the history file as
\* it was when the run started.
C30_FailedFetchKeepsHistory ==
    [][ (RunEnds /\ "compare" \notin DOMAIN done) =>
          /\ outcome' \in {"error", "raised"}
          /\ file' = file
          /\ file = file0
      ]_vars

C30_Witness ==
    /\ pc = "idle"
    /\ Len(runlog) = 2
    /\ runlog[1].status = "ok"
    /\ runlog[2].status = "error"
    /\ DOMAIN runlog[2].days = {"call"}
    /\ file = file0
    /\ file.state = "ok"

====
